---- MODULE Spec2Model ----
(***************************************************************************)
(* Model of the Portfolio Backend (src/main.py): the request handlers      *)
(* github_profile, github_repos and test_database.  One behaviour of the   *)
(* model is the lifetime of one incoming request: its arrival (with the    *)
(* framework's query validation), the single outbound requests.get, and    *)
(* the rest of the handler up to the HTTP response.                        *)
(*                                                                         *)
(* Python values: a JSON object (dict) is a record whose DOMAIN is the set *)
(* of keys it has, so dict.get(k, default) is DictGet.  A value that may   *)
(* be None or a string is tagged: None, or Str(s) with s a sequence of     *)
(* character codes (strings compare lexicographically, as in Python).      *)
(***************************************************************************)
EXTENDS Integers, Sequences, FiniteSets, TLC

\* ---------------------------------------------------------------- bounds
\* longest upstream repository list that is enumerated
MaxRepos == 2
\* largest stargazers_count that is enumerated
MaxStars == 1

\* ------------------------------------------------------ program constants
LimitDefault == 6
LimitMin == 1
LimitMax == 50
CollectionsShown == 10
ExcerptLen == 50

\* ---------------------------------------------------------- Python values
None == [t |-> "none"]
Str(s) == [t |-> "str", v |-> s]

\* bool(x) of a value that is None or a string
Truthy(x) == x.t = "str" /\ x.v # <<>>

\* x or y
PyOr(x, y) == IF Truthy(x) THEN x ELSE y

\* d.get(k, default)
DictGet(d, k, default) == IF k \in DOMAIN d THEN d[k] ELSE default

\* s < t for two strings (sequences of character codes)
StrLess(s, t) ==
    \/ Len(s) < Len(t) /\ \A i \in 1..Len(s) : s[i] = t[i]
    \/ \E i \in 1..Len(s) :
          /\ i <= Len(t)
          /\ \A j \in 1..(i - 1) : s[j] = t[j]
          /\ s[i] < t[i]

\* a < b for two (int, str) tuples
TupleLess(a, b) == a[1] < b[1] \/ (a[1] = b[1] /\ StrLess(a[2], b[2]))

Min(a, b) == IF a <= b THEN a ELSE b

\* s[:n] for n >= 0
Take(s, n) == SubSeq(s, 1, Min(n, Len(s)))

\* --------------------------------------------------------- the inputs
\* timestamps and names the upstream may send
StampStrs == {<<>>, <<1, 2>>, <<2>>}
NameStrs == {<<>>, <<1>>, <<2>>}

\* a repository object of the upstream list, without its name: every key may
\* be missing
RepoObjs ==
    LET F == BOOLEAN
        S == 0..MaxStars
        U == {Str(u) : u \in StampStrs}
    IN  {[description |-> None]}
        \cup {[description |-> None, fork |-> f] : f \in F}
        \cup {[description |-> None, stargazers_count |-> s] : s \in S}
        \cup {[description |-> None, updated_at |-> u] : u \in U}
        \cup {[description |-> None, fork |-> f, stargazers_count |-> s] : f \in F, s \in S}
        \cup {[description |-> None, fork |-> f, updated_at |-> u] : f \in F, u \in U}
        \cup {[description |-> None, stargazers_count |-> s, updated_at |-> u] :
                 s \in S, u \in U}
        \cup {[description |-> None, fork |-> f, stargazers_count |-> s, updated_at |-> u] :
                 f \in F, s \in S, u \in U}

\* the upstream list made of the objects l, the i-th one named i (a user's
\* repositories have distinct names)
Named(l) == [i \in 1..Len(l) |-> ("name" :> i) @@ l[i]]

\* a user object of the upstream: login and name may be missing, null or a string
UserObjs ==
    LET V == {None} \cup {Str(s) : s \in NameStrs}
    IN  {[bio |-> None]}
        \cup {[bio |-> None, login |-> l] : l \in V}
        \cup {[bio |-> None, name |-> n] : n \in V}
        \cup {[bio |-> None, login |-> l, name |-> n] : l \in V, n \in V}

\* the query string of a request to /api/github/repos: limit and
\* include_forks may be omitted
ReposQueries ==
    LET L == {LimitMin - 1, LimitMin, LimitMin + 1, LimitMax, LimitMax + 1}
        username == Str(<<1>>)
    IN  {[username |-> username]}
        \cup {[username |-> username, limit |-> l] : l \in L}
        \cup {[username |-> username, include_forks |-> f] : f \in BOOLEAN}
        \cup {[username |-> username, limit |-> l, include_forks |-> f] :
                 l \in L, f \in BOOLEAN}

\* what requests.get can come back with: a transport failure (raised as a
\* RequestException) or a response with a status code
UpstreamOutcomes ==
    {[kind |-> "transport", text |-> x] : x \in {"dns", "refused", "timeout"}}
    \cup {[kind |-> "http", status |-> s] : s \in {200, 300, 404, 500}}

NoUpstream == [kind |-> "none"]

VARIABLES pc, endpoint, query, limit, include_forks, calls, upstream, body, response

vars == <<pc, endpoint, query, limit, include_forks, calls, upstream, body, response>>

NoResponse == [status |-> 0]

Init ==
    /\ pc = "idle"
    /\ endpoint = "none"
    /\ query = [username |-> Str(<<1>>)]
    /\ limit = LimitDefault
    /\ include_forks = FALSE
    /\ calls = 0
    /\ upstream = NoUpstream
    /\ body = None
    /\ response = NoResponse

\* ------------------------------------------------- exceptions and outcomes
RequestException(text) == [kind |-> "RequestException", text |-> text]
ValueError(text) == [kind |-> "ValueError", text |-> text]
HTTPException(status_code, detail) ==
    [kind |-> "HTTPException", status_code |-> status_code, detail |-> detail]

Raise(e) == [raised |-> TRUE, exc |-> e]
Return(v) == [raised |-> FALSE, ret |-> v]

\* requests.get raising on a transport failure, else handing back the response
requests_get(r) ==
    IF r.kind = "transport" THEN Raise(RequestException(<<r.text>>)) ELSE Return(r)

\* r.raise_for_status(): an HTTPError (a RequestException) for 4xx and 5xx,
\* nothing for any other status
raise_for_status(r) ==
    IF r.status >= 400 /\ r.status < 500
        THEN Raise(RequestException(<<ToString(r.status), "Client Error">>))
    ELSE IF r.status >= 500 /\ r.status < 600
        THEN Raise(RequestException(<<ToString(r.status), "Server Error">>))
    ELSE Return(None)

\* r.json() failing: the decoder's error is a RequestException in
\* requests >= 2.27 and a plain ValueError before
JsonErrors ==
    {Raise(RequestException(<<"JSONDecodeError">>)), Raise(ValueError(<<"JSONDecodeError">>))}

\* the framework's answer to what the handler returned or raised
Respond(out) ==
    IF ~out.raised THEN [status |-> 200, body |-> out.ret]
    ELSE IF out.exc.kind = "HTTPException"
        THEN [status |-> out.exc.status_code, detail |-> out.exc.detail]
    ELSE [status |-> 500, detail |-> <<"Internal Server Error">>, unhandled |-> out.exc.kind]

\* mutant: a handler that catches every exception, the HTTPException too
UpstreamErrorHandler_CatchAll(out) ==
    IF out.raised
        THEN Raise(HTTPException(502, <<"GitHub API error: ">> \o
                 (IF "text" \in DOMAIN out.exc THEN out.exc.text ELSE out.exc.detail)))
    ELSE out

\* except requests.RequestException as e: raise HTTPException(502, ...)
UpstreamErrorHandler(out) ==
    IF out.raised /\ out.exc.kind = "RequestException"
        THEN Raise(HTTPException(502, <<"GitHub API error: ">> \o out.exc.text))
    ELSE out

\* mutant: the call is tried again after an upstream failure
AfterTry_Retry(out) ==
    IF out.raised /\ out.exc.kind = "HTTPException" /\ out.exc.status_code = 502
        THEN "call"
    ELSE "done"

\* where a handler stands once its try statement has run: it has returned or
\* raised, there is no loop around the upstream call
AfterTry(out) == "done"

\* ------------------------------------------------------------ github_profile
\* lines 30-33: the call, the 404 test, raise_for_status
github_profile_head(r) ==
    LET got == requests_get(r)
    IN  IF got.raised THEN got
        ELSE IF r.status = 404
            THEN Raise(HTTPException(404, <<"GitHub user not found">>))
        ELSE raise_for_status(r)

\* mutant: no fallback to the login
ProfileName_NoFallback(data) == DictGet(data, "name", None)

\* "name": data.get("name") or data.get("login")
ProfileName(data) == PyOr(DictGet(data, "name", None), DictGet(data, "login", None))

\* lines 34-50: the selected fields (bio stands for the fields copied as they are)
github_profile_map(data) ==
    [login |-> DictGet(data, "login", None),
     name |-> ProfileName(data),
     bio |-> DictGet(data, "bio", None)]

github_profile_tail(parsed) ==
    IF parsed.raised THEN parsed ELSE Return(github_profile_map(parsed.ret))

\* ------------------------------------------------------------- github_repos
\* mutant: an out-of-range limit is moved into the range and accepted
ValidateReposQuery_Clamp(q) ==
    LET l == DictGet(q, "limit", LimitDefault)
        f == DictGet(q, "include_forks", FALSE)
    IN  [ok |-> TRUE,
         limit |-> IF l < LimitMin THEN LimitMin ELSE Min(l, LimitMax),
         include_forks |-> f]

\* limit: int = Query(6, ge=1, le=50), include_forks: bool = Query(False)
ValidateReposQuery(q) ==
    LET l == DictGet(q, "limit", LimitDefault)
        f == DictGet(q, "include_forks", FALSE)
    IN  IF l >= LimitMin /\ l <= LimitMax
            THEN [ok |-> TRUE, limit |-> l, include_forks |-> f]
        ELSE [ok |-> FALSE, limit |-> l, include_forks |-> f]

\* lines 63-64
github_repos_head(r) ==
    LET got == requests_get(r)
    IN  IF got.raised THEN got ELSE raise_for_status(r)

\* mutant: nothing is filtered out
Selected_All(repo, forks) == TRUE

\* if include_forks or not repo.get("fork", False)
Selected(repo, forks) == forks \/ ~DictGet(repo, "fork", FALSE)

\* lines 68-79 (name stands for the fields copied as they are)
MapRepo(repo) ==
    [name |-> DictGet(repo, "name", None),
     stargazers_count |-> DictGet(repo, "stargazers_count", 0),
     fork |-> DictGet(repo, "fork", FALSE),
     updated_at |-> DictGet(repo, "updated_at", None)]

\* lines 67-82: the comprehension
FilterMap(repos, forks) ==
    LET kept == SelectSeq(repos, LAMBDA repo : Selected(repo, forks))
    IN  [i \in 1..Len(kept) |-> MapRepo(kept[i])]

\* mutant: the key is the star count alone
SortKey_StarsOnly(x) == <<DictGet(x, "stargazers_count", 0), <<>>>>

\* key=lambda x: (x.get("stargazers_count", 0), x.get("updated_at") or "")
SortKey(x) ==
    <<DictGet(x, "stargazers_count", 0), PyOr(DictGet(x, "updated_at", None), Str(<<>>)).v>>

\* one step of the stable descending sort: x goes after every element whose
\* key is not smaller than its own
InsertDesc(s, x) ==
    LET smaller == {i \in 1..Len(s) : TupleLess(SortKey(s[i]), SortKey(x))}
        at == IF smaller = {} THEN Len(s) + 1
              ELSE CHOOSE i \in smaller : \A j \in smaller : i <= j
    IN  SubSeq(s, 1, at - 1) \o <<x>> \o SubSeq(s, at, Len(s))

RECURSIVE SortFrom(_, _)
SortFrom(done, rest) ==
    IF rest = <<>> THEN done ELSE SortFrom(InsertDesc(done, Head(rest)), Tail(rest))

\* filtered.sort(key=..., reverse=True): stable, equal keys keep their order
SortRepos(s) == SortFrom(<<>>, s)

\* mutant: nothing is cut off
Truncate_None(s, n) == s

\* filtered[:limit]
Truncate(s, n) == Take(s, n)

\* mutant: the list is cut to the limit before it is sorted
github_repos_select_TruncateFirst(repos, n, forks) ==
    SortRepos(Truncate(FilterMap(repos, forks), n))

\* lines 65-85
github_repos_select(repos, n, forks) == Truncate(SortRepos(FilterMap(repos, forks)), n)

github_repos_tail(parsed, n, forks) ==
    IF parsed.raised THEN parsed ELSE Return(github_repos_select(parsed.ret, n, forks))

\* ------------------------------------------------------------ test_database
\* a message of n characters
Msg(n) == [i \in 1..n |-> 1]

\* what the optional store integration can be: the module missing, the import
\* failing otherwise, db None, or a handle whose enumeration returns or raises
StoreStates ==
    LET M == {Msg(1), Msg(ExcerptLen), Msg(ExcerptLen + 1)}
        C == {[i \in 1..n |-> i] : n \in {0, 1, CollectionsShown, CollectionsShown + 1}}
    IN  {[imported |-> "ImportError"]}
        \cup {[imported |-> "Exception", text |-> m] : m \in M}
        \cup {[imported |-> "ok", db |-> "none"]}
        \cup {[imported |-> "ok", db |-> "handle", has_name |-> h, listing |-> Return(c)] :
                 h \in BOOLEAN, c \in C}
        \cup {[imported |-> "ok", db |-> "handle", has_name |-> h,
               listing |-> Raise([kind |-> "Exception", text |-> m])] :
                 h \in BOOLEAN, m \in M}

\* os.getenv of DATABASE_URL and DATABASE_NAME
EnvStates == [DATABASE_URL : {None, Str(<<>>), Str(<<1>>)},
              DATABASE_NAME : {None, Str(<<>>), Str(<<1>>)}]

\* lines 92-99
InitialReport ==
    [backend |-> "Running",
     database |-> <<"Not Available", <<>>>>,
     database_url |-> "None",
     database_name |-> "None",
     connection_status |-> "Not Connected",
     collections |-> <<>>]

\* lines 112-117: the enumeration and its own handler
ListCollections(store, rep) ==
    IF store.listing.raised
        THEN [rep EXCEPT !.database =
                 <<"Connected but Error: ", Take(store.listing.exc.text, ExcerptLen)>>]
    ELSE [rep EXCEPT !.collections = Take(store.listing.ret, CollectionsShown),
                     !.database = <<"Connected & Working", <<>>>>]

\* lines 103-119: the body of the outer try; exc is what it raised, if anything
ProbeStore(store, rep) ==
    IF store.imported # "ok"
        THEN [raised |-> TRUE, exc |-> [kind |-> store.imported,
                                        text |-> DictGet(store, "text", <<>>)], rep |-> rep]
    ELSE IF store.db = "handle"
        THEN [raised |-> FALSE,
              rep |-> ListCollections(store,
                  [rep EXCEPT !.database = <<"Available", <<>>>>,
                              !.database_url = "Configured",
                              !.database_name = IF store.has_name THEN "db.name" ELSE "Connected",
                              !.connection_status = "Connected"])]
    ELSE [raised |-> FALSE,
          rep |-> [rep EXCEPT !.database = <<"Available but not initialized", <<>>>>]]

\* mutant: only the ImportError is caught
ProbeHandlers_ImportErrorOnly(probe) ==
    IF probe.raised /\ probe.exc.kind = "ImportError"
        THEN [raised |-> FALSE,
              rep |-> [probe.rep EXCEPT !.database = <<"Database module not found", <<>>>>]]
    ELSE probe

\* lines 121-124: except ImportError, except Exception
ProbeHandlers(probe) ==
    IF ~probe.raised THEN probe
    ELSE IF probe.exc.kind = "ImportError"
        THEN [raised |-> FALSE,
              rep |-> [probe.rep EXCEPT !.database = <<"Database module not found", <<>>>>]]
    ELSE IF probe.exc.kind \in {"ImportError", "Exception"}
        THEN [raised |-> FALSE,
              rep |-> [probe.rep EXCEPT !.database =
                          <<"Error: ", Take(probe.exc.text, ExcerptLen)>>]]
    ELSE probe

\* lines 127-129
EnvFlags(rep, env) ==
    [rep EXCEPT !.database_url = IF Truthy(env.DATABASE_URL) THEN "Set" ELSE "Not Set",
                !.database_name = IF Truthy(env.DATABASE_NAME) THEN "Set" ELSE "Not Set"]

\* lines 90-131
test_database(store, env) ==
    LET probe == ProbeHandlers(ProbeStore(store, InitialReport))
    IN  IF probe.raised THEN Raise(probe.exc) ELSE Return(EnvFlags(probe.rep, env))

\* ----------------------------------------------------------------- actions
\* GET /api/github/profile arrives; username is required and not constrained
ReceiveProfile ==
    /\ pc = "idle"
    /\ endpoint' = "profile"
    /\ pc' = "call"
    /\ UNCHANGED <<query, limit, include_forks, calls, upstream, body, response>>

\* GET /api/github/repos arrives: the framework validates the query before
\* the handler body runs, and answers 422 itself when it is invalid
ReceiveRepos ==
    /\ pc = "idle"
    /\ \E q \in ReposQueries :
          LET v == ValidateReposQuery(q)
          IN  /\ endpoint' = "repos"
              /\ query' = q
              /\ limit' = v.limit
              /\ include_forks' = v.include_forks
              /\ IF v.ok
                    THEN pc' = "call" /\ response' = response
                 ELSE /\ pc' = "done"
                      /\ response' = [status |-> 422, detail |-> <<"limit out of range">>]
    /\ UNCHANGED <<calls, upstream, body>>

\* the handler's requests.get (line 30, line 63): one outbound call
RequestsGet ==
    /\ pc = "call"
    /\ \E r \in UpstreamOutcomes : upstream' = r
    /\ calls' = calls + 1
    /\ pc' = "got"
    /\ UNCHANGED <<endpoint, query, limit, include_forks, body, response>>

\* github_profile from r.json() on, parsed being what r.json() returned or
\* raised, and the framework's response
RespondProfile(parsed) ==
    LET out == UpstreamErrorHandler(github_profile_tail(parsed))
    IN  /\ body' = IF parsed.raised THEN None ELSE parsed.ret
        /\ response' = Respond(out)
        /\ pc' = AfterTry(out)

\* the rest of github_profile (lines 31-52): r.json() is reached only when
\* nothing was raised before it
FinishProfile ==
    /\ pc = "got"
    /\ endpoint = "profile"
    /\ LET head == github_profile_head(upstream)
       IN  \/ head.raised /\ RespondProfile(head)
           \/ ~head.raised /\ \E data \in UserObjs : RespondProfile(Return(data))
           \/ ~head.raised /\ \E e \in JsonErrors : RespondProfile(e)
    /\ UNCHANGED <<endpoint, query, limit, include_forks, calls, upstream>>

\* github_repos from r.json() on, and the framework's response
RespondRepos(parsed) ==
    LET out == UpstreamErrorHandler(github_repos_tail(parsed, limit, include_forks))
    IN  /\ body' = IF parsed.raised THEN None ELSE parsed.ret
        /\ response' = Respond(out)
        /\ pc' = AfterTry(out)

\* the rest of github_repos (lines 64-87)
FinishRepos ==
    /\ pc = "got"
    /\ endpoint = "repos"
    /\ LET head == github_repos_head(upstream)
       IN  \/ head.raised /\ RespondRepos(head)
           \/ ~head.raised /\ \E n \in 0..MaxRepos : \E l \in [1..n -> RepoObjs] :
                 RespondRepos(Return(Named(l)))
           \/ ~head.raised /\ \E e \in JsonErrors : RespondRepos(e)
    /\ UNCHANGED <<endpoint, query, limit, include_forks, calls, upstream>>

\* GET /test: the whole of test_database and the framework's response
TestDatabase ==
    /\ pc = "idle"
    /\ endpoint' = "test"
    /\ \E store \in StoreStates, env \in EnvStates :
          /\ body' = store
          /\ response' = Respond(test_database(store, env))
    /\ pc' = "done"
    /\ UNCHANGED <<query, limit, include_forks, calls, upstream>>

Next ==
    \/ ReceiveProfile
    \/ ReceiveRepos
    \/ RequestsGet
    \/ FinishProfile
    \/ FinishRepos
    \/ TestDatabase

Spec == Init /\ [][Next]_vars

\* ------------------------------------------------------------- properties
\* the request was answered with a success body by the named endpoint
ProfileOk == pc = "done" /\ endpoint = "profile" /\ response.status = 200
ReposOk == pc = "done" /\ endpoint = "repos" /\ response.status = 200

\* the limit and include_forks the caller asked for
AskedLimit == DictGet(query, "limit", 6)
ForksOptedIn == "include_forks" \in DOMAIN query /\ query.include_forks = TRUE

\* an upstream repository object whose fork flag is not true, or any when
\* forks are included
Matching(repo) == ForksOptedIn \/ ~("fork" \in DOMAIN repo /\ repo.fork = TRUE)

\* s >= t lexicographically
RECURSIVE LexGeq(_, _)
LexGeq(s, t) ==
    IF t = <<>> THEN TRUE
    ELSE IF s = <<>> THEN FALSE
    ELSE IF Head(s) # Head(t) THEN Head(s) > Head(t)
    ELSE LexGeq(Tail(s), Tail(t))

\* stars and timestamp of an item, absent stars being 0 and an absent
\* timestamp the empty string
StarsOf(x) == IF "stargazers_count" \in DOMAIN x THEN x.stargazers_count ELSE 0
StampOf(x) ==
    IF "updated_at" \in DOMAIN x /\ x.updated_at # None THEN x.updated_at.v ELSE <<>>

\* a comes no later than b in the order by stars, then timestamp, descending
OrderedPair(a, b) ==
    \/ StarsOf(a) > StarsOf(b)
    \/ StarsOf(a) = StarsOf(b) /\ LexGeq(StampOf(a), StampOf(b))

\* C1: when include_forks is omitted or false, every element of the result
\* of github_repos has fork == false.
C1_NoForksUnlessOptedIn ==
    (ReposOk /\ ~ForksOptedIn) =>
        \A i \in 1..Len(response.body) : response.body[i].fork = FALSE

\* C1 witness: forks not opted in, the upstream list holds a fork and a
\* repository that is none, and the result holds the latter only.
C1_Witness ==
    /\ ReposOk
    /\ "include_forks" \notin DOMAIN query
    /\ Len(body) = 2
    /\ "fork" \in DOMAIN body[1] /\ body[1].fork = TRUE
    /\ "fork" \notin DOMAIN body[2]
    /\ Len(response.body) = 1
    /\ response.body[1].name = 2

\* C2: any two adjacent elements a, b of the result of github_repos have
\* a.stars > b.stars, or equal stars and a.updated_at >= b.updated_at
\* lexicographically, an absent updated_at counting as the empty string.
C2_ResultSorted ==
    ReposOk =>
        \A i \in 1..(Len(response.body) - 1) :
            OrderedPair(response.body[i], response.body[i + 1])

\* C2 witness: two items with equal stars of which the one without a
\* timestamp came first from the upstream and is returned last.
C2_Witness ==
    /\ ReposOk
    /\ Len(response.body) = 2
    /\ response.body[1].name = 2
    /\ response.body[2].name = 1
    /\ response.body[1].stargazers_count = response.body[2].stargazers_count
    /\ response.body[1].updated_at = Str(<<1, 2>>)
    /\ response.body[2].updated_at = None

\* C3: for a limit in [1,50] the result of github_repos has
\* min(limit, number of matching repositories) elements.
C3_ResultLength ==
    (ReposOk /\ AskedLimit >= 1 /\ AskedLimit <= 50) =>
        Len(response.body) =
            Min(AskedLimit, Cardinality({i \in 1..Len(body) : Matching(body[i])}))

\* C3 witness: more matching repositories than the limit, and a fork that
\* does not count.
C3_Witness ==
    /\ ReposOk
    /\ AskedLimit = 1
    /\ ~ForksOptedIn
    /\ Len(body) = MaxRepos
    /\ Cardinality({i \in 1..Len(body) : Matching(body[i])}) = MaxRepos
    /\ Len(response.body) = 1

\* C4: a request to /api/github/repos whose limit is outside [1,50] is
\* answered 422 and no upstream call is ever issued for it; the request is
\* not carried on with a limit moved into the range.
C4_OutOfRangeRejected ==
    (endpoint = "repos" /\ (AskedLimit < 1 \/ AskedLimit > 50)) =>
        /\ pc = "done"
        /\ response.status = 422
        /\ calls = 0
        /\ upstream = NoUpstream

\* C4 witness: a request with limit 51 was answered 422.
C4_Witness ==
    /\ endpoint = "repos"
    /\ pc = "done"
    /\ AskedLimit = 51
    /\ response.status = 422

\* C5 as stated: the returned name is the upstream name if the upstream
\* object has one, else the upstream login.
C5_NameIfPresentElseLogin ==
    ProfileOk =>
        response.body.name =
            IF "name" \in DOMAIN body /\ body.name # None THEN body.name
            ELSE DictGet(body, "login", None)

\* C5 amended: the returned name is the upstream name if that is a non-empty
\* string, else the upstream login (null when there is none).
C5_NameIfNonEmptyElseLogin ==
    ProfileOk =>
        response.body.name =
            IF "name" \in DOMAIN body /\ body.name # None /\ Len(body.name.v) > 0
                THEN body.name
            ELSE IF "login" \in DOMAIN body THEN body.login
            ELSE None

\* C5 witness: no name field and a login: the login is returned as name.
C5_Witness ==
    /\ ProfileOk
    /\ "name" \notin DOMAIN body
    /\ "login" \in DOMAIN body
    /\ body.login = Str(<<1>>)
    /\ response.body.name = Str(<<1>>)

\* C6: when the upstream answers the profile lookup with 404, github_profile
\* answers 404 with detail "GitHub user not found": not 502, and no profile.
C6_NotFoundPassedOn ==
    (pc = "done" /\ endpoint = "profile" /\ upstream.kind = "http" /\ upstream.status = 404) =>
        response = [status |-> 404, detail |-> <<"GitHub user not found">>]

\* C6 witness: the profile lookup was answered 404 and the request is done.
C6_Witness ==
    /\ pc = "done"
    /\ endpoint = "profile"
    /\ upstream = [kind |-> "http", status |-> 404]
    /\ response.status = 404

\* the upstream call failed in transport, or came back with a status that is
\* not 2xx (and not the profile endpoint's 404)
UpstreamFailed ==
    \/ upstream.kind = "transport"
    \/ /\ upstream.kind = "http"
       /\ ~(upstream.status >= 200 /\ upstream.status < 300)
       /\ ~(endpoint = "profile" /\ upstream.status = 404)

\* C7: on both endpoints every transport failure and every upstream status
\* that is not 2xx (nor, for the profile, 404) is answered 502 with detail
\* "GitHub API error: <text>", never a success body or an unhandled fault.
C7_UpstreamFailureIs502 ==
    (pc = "done" /\ endpoint \in {"profile", "repos"} /\ UpstreamFailed) =>
        /\ response.status = 502
        /\ Head(response.detail) = "GitHub API error: "
        /\ Len(response.detail) > 1

\* C8: test_database always answers 200 with a report, whatever the store
\* integration does.
C8_DiagnosticsNeverFails ==
    (pc = "done" /\ endpoint = "test") =>
        /\ response.status = 200
        /\ "body" \in DOMAIN response
        /\ "database" \in DOMAIN response.body

\* C8 witness: the import raised something other than ImportError and the
\* report carries the excerpt of at most 50 characters.
C8_Witness ==
    /\ pc = "done"
    /\ endpoint = "test"
    /\ body.imported = "Exception"
    /\ Len(body.text) = 51
    /\ response.status = 200
    /\ response.body.database = <<"Error: ", Msg(50)>>

\* C9: github_repos truncates after sorting: every returned item sorts no
\* later than every matching upstream item that is not returned.
C9_TruncatedAfterSort ==
    ReposOk =>
        LET returned == {response.body[i].name : i \in 1..Len(response.body)}
        IN  \A i \in 1..Len(response.body) : \A j \in 1..Len(body) :
                (Matching(body[j]) /\ body[j].name \notin returned) =>
                    OrderedPair(response.body[i], body[j])

\* C9 witness: limit 1 and two matching repositories, the upstream's second
\* one sorting first: it is the one returned.
C9_Witness ==
    /\ ReposOk
    /\ AskedLimit = 1
    /\ Len(body) = 2
    /\ Matching(body[1]) /\ Matching(body[2])
    /\ StarsOf(body[2]) > StarsOf(body[1])
    /\ Len(response.body) = 1
    /\ response.body[1].name = 2

\* C10: a request issues at most one upstream call over its lifetime; once
\* the call has failed the handler answers and issues no second call.
C10_AtMostOneCall ==
    /\ [](calls <= 1)
    /\ [][(pc = "got" /\ UpstreamFailed) => (pc' = "done" /\ calls' = calls)]_vars

\* C10 witness: a request whose one call failed has been answered 502.
C10_Witness ==
    /\ pc = "done"
    /\ calls = 1
    /\ upstream.kind = "transport"
    /\ response.status = 502

====
